---- MODULE Spec2Model ----
(***************************************************************************)
(* CopyCat clipboard manager (src/src/main.rs): the clipboard-history      *)
(* store, its JSON persistence, the poller and the deferred-action         *)
(* dispatcher of CopyCatApp::update, as a state machine.                   *)
(*                                                                         *)
(* Texts are sequences of one-character strings.  The history file is a    *)
(* sequence of JSON tokens.  The clock counts milliseconds since the       *)
(* epoch; entries carry whole seconds.                                     *)
(***************************************************************************)
EXTENDS Integers, Sequences, FiniteSets, TLC

(***************************************************************************)
(* Bounds of the model.  MAX_HISTORY is 1000 in the source (main.rs:13);   *)
(* the model runs the same code with a small capacity.  MaxIntents bounds  *)
(* the clicks of one cycle in Spec and SpecFault, MaxIntentsCycle in       *)
(* SpecCycle.                                                              *)
(***************************************************************************)
MAX_HISTORY == 2
MaxTicks == 2
MaxWriteFaults == 1
MaxIntents == 1
MaxIntentsCycle == 2

(* Program constants. *)
POLL_INTERVAL_MS == 500
PREVIEW_LIMIT == 50
PREVIEW_CUT == 47

(* u64 arithmetic wraps at 2^64.  The model checker's integers are 32 bits *)
(* wide, so the model wraps at 2^30, far above every value it reaches.     *)
Modulus == 2^30

\* a - b on unsigned integers: whether it overflows (a panic in a build with
\* overflow checks) and the wrapped value (a build without them)
sub_u64(a, b) == [overflow |-> a < b, value |-> (a - b + Modulus) % Modulus]

(* The clock starts two poll intervals after the epoch and advances one    *)
(* poll interval at a time, so a poll comes due every second tick.         *)
StartMs == 2 * POLL_INTERVAL_MS
TickMs == POLL_INTERVAL_MS
MaxClock == StartMs + MaxTicks * TickMs

Min(a, b) == IF a < b THEN a ELSE b

(***************************************************************************)
(* Texts.  The pool has a lower-case and an upper-case letter, a text with *)
(* a double quote and a text with a backslash (both escaped in JSON).      *)
(***************************************************************************)
EmptyText == << >>
TextPool ==
  << <<"a">>, <<"A">>, <<"\"", "b">>, <<"b", "\\">>, <<"a", "b">>, <<"B">> >>
NumTexts == Min(MAX_HISTORY + 1, Len(TextPool))
Texts == {TextPool[i] : i \in 1..NumTexts}

(***************************************************************************)
(* ClipboardEntry (main.rs:27-33) and ClipboardEntry::new (main.rs:36-48). *)
(***************************************************************************)
ClipboardEntry(id, content, timestamp, favorite) ==
  [id |-> id, content |-> content, timestamp |-> timestamp, favorite |-> favorite]

NowSecs(ms) == ms \div 1000

NewEntry(content, ms) == ClipboardEntry(NowSecs(ms), content, NowSecs(ms), FALSE)

(***************************************************************************)
(* Sequence helpers standing for the VecDeque / iterator methods used.     *)
(***************************************************************************)
\* iter().position(|entry| !entry.favorite) (main.rs:154-155): the first
\* index, from the front, of an entry that is not favorite; 0 for None
FirstNonFavorite(h) ==
  IF \E i \in 1..Len(h) : ~h[i].favorite
    THEN CHOOSE i \in 1..Len(h) :
           ~h[i].favorite /\ \A j \in 1..(i - 1) : h[j].favorite
    ELSE 0

\* iter().position(|e| e.id == id) and iter_mut().find(|e| e.id == id)
\* (main.rs:190, 332-333): the first index of an entry with this id; 0 for None
FirstWithId(h, id) ==
  IF \E i \in 1..Len(h) : h[i].id = id
    THEN CHOOSE i \in 1..Len(h) :
           h[i].id = id /\ \A j \in 1..(i - 1) : h[j].id # id
    ELSE 0

\* VecDeque::remove(index)
RemoveAt(s, i) == SubSeq(s, 1, i - 1) \o SubSeq(s, i + 1, Len(s))

\* VecDeque::pop_back
PopBack(s) == IF Len(s) = 0 THEN s ELSE SubSeq(s, 1, Len(s) - 1)

\* an insertion at the back
PushFront_at_back(s, e) == s \o <<e>>

\* VecDeque::push_front
PushFront(s, e) == <<e>> \o s

Contents(s) == {s[i].content : i \in 1..Len(s)}

(***************************************************************************)
(* The preview of a row (main.rs:261-264).  String::len counts UTF-8 bytes *)
(* and &s[..n] panics when byte n is inside a character.                   *)
(***************************************************************************)
\* the bytes of one character in UTF-8
Utf8Width(c) == IF c = "é" THEN 2 ELSE 1

\* String::len
RECURSIVE Utf8Len(_)
Utf8Len(t) == IF t = << >> THEN 0 ELSE Utf8Width(Head(t)) + Utf8Len(Tail(t))

\* str::is_char_boundary
is_char_boundary(t, n) == \E k \in 0..Len(t) : Utf8Len(SubSeq(t, 1, k)) = n

\* content_display.len() > 50 and &content_display[..47] is out of step
PreviewPanics(content) ==
  Utf8Len(content) > PREVIEW_LIMIT /\ ~is_char_boundary(content, PREVIEW_CUT)

\* a text of 51 bytes whose 47th and 48th byte are one character
LongText ==
  [k \in 1..(PREVIEW_CUT - 1) |-> "x"] \o <<"é", "y", "y", "y">>

(***************************************************************************)
(* JSON text as serde_json writes and reads it, at the level of tokens.    *)
(* A token is [k, n, s]: k its kind ("[", "]", "{", "}", ":", ",", "num",  *)
(* "str", "true", "false"), n the value of a number, s the raw characters  *)
(* between the quotes of a string (escapes not yet decoded).               *)
(***************************************************************************)
Punct(k) == [k |-> k, n |-> 0, s |-> << >>]
NumTok(n) == [k |-> "num", n |-> n, s |-> << >>]
StrTok(raw) == [k |-> "str", n |-> 0, s |-> raw]
BoolTok(b) == Punct(IF b THEN "true" ELSE "false")

KeyId == <<"i", "d">>
KeyContent == <<"c", "o", "n", "t", "e", "n", "t">>
KeyTimestamp == <<"t", "i", "m", "e", "s", "t", "a", "m", "p">>
KeyFavorite == <<"f", "a", "v", "o", "r", "i", "t", "e">>

\* a string writer that escapes nothing
Escape_nothing(t) == t

\* serde_json string writer: a double quote and a backslash are escaped
RECURSIVE Escape(_)
Escape(t) ==
  IF t = << >> THEN << >>
  ELSE (IF Head(t) \in {"\"", "\\"} THEN <<"\\", Head(t)>> ELSE <<Head(t)>>)
       \o Escape(Tail(t))

\* serde_json string reader: [ok, v]; a lone backslash, an unknown escape or
\* a bare double quote is a syntax error
RECURSIVE Unescape(_)
Unescape(raw) ==
  IF raw = << >> THEN [ok |-> TRUE, v |-> << >>]
  ELSE IF Head(raw) = "\"" THEN [ok |-> FALSE, v |-> << >>]
  ELSE IF Head(raw) = "\\" THEN
    IF Len(raw) >= 2 /\ raw[2] \in {"\"", "\\", "/"}
      THEN LET r == Unescape(SubSeq(raw, 3, Len(raw)))
           IN  [ok |-> r.ok, v |-> IF r.ok THEN <<raw[2]>> \o r.v ELSE << >>]
      ELSE [ok |-> FALSE, v |-> << >>]
  ELSE LET r == Unescape(Tail(raw))
       IN  [ok |-> r.ok, v |-> IF r.ok THEN <<Head(raw)>> \o r.v ELSE << >>]

\* #[derive(Serialize)] for ClipboardEntry: the fields in declaration order
EntryJson(e) ==
  << Punct("{"),
     StrTok(KeyId), Punct(":"), NumTok(e.id), Punct(","),
     StrTok(KeyContent), Punct(":"), StrTok(Escape(e.content)), Punct(","),
     StrTok(KeyTimestamp), Punct(":"), NumTok(e.timestamp), Punct(","),
     StrTok(KeyFavorite), Punct(":"), BoolTok(e.favorite),
     Punct("}") >>

RECURSIVE EntriesJson(_)
EntriesJson(h) ==
  IF h = << >> THEN << >>
  ELSE IF Len(h) = 1 THEN EntryJson(h[1])
  ELSE EntryJson(h[1]) \o <<Punct(",")>> \o EntriesJson(Tail(h))

\* serde_json::to_string(&self.clipboard_history)
to_string(h) == <<Punct("[")>> \o EntriesJson(h) \o <<Punct("]")>>

(***************************************************************************)
(* serde_json::from_str::<VecDeque<ClipboardEntry>> (main.rs:112) with the *)
(* derived Deserialize of ClipboardEntry (main.rs:27-33): a JSON array     *)
(* whose elements are objects holding each of the four fields exactly      *)
(* once with a value of its type (unknown keys are skipped), or arrays of  *)
(* the four values in declaration order; nothing may follow the array.     *)
(***************************************************************************)
Tok(toks, i) == IF i >= 1 /\ i <= Len(toks) THEN toks[i] ELSE Punct("eof")

NoEntry == ClipboardEntry(0, << >>, 0, FALSE)
ParseFail == [ok |-> FALSE, next |-> 0, entry |-> NoEntry]
FieldFail == [ok |-> FALSE, seen |-> {}, entry |-> NoEntry]

IsU64(t) == t.k = "num" /\ t.n >= 0
IsString(t) == t.k = "str" /\ Unescape(t.s).ok
IsBool(t) == t.k \in {"true", "false"}
IsScalar(t) == t.k \in {"num", "true", "false", "null"} \/ IsString(t)

\* one "key": value member of an object visited by the derived visitor
Field(seen, e, key, val) ==
  IF key = KeyId THEN
    IF IsU64(val) /\ "id" \notin seen
      THEN [ok |-> TRUE, seen |-> seen \cup {"id"}, entry |-> [e EXCEPT !.id = val.n]]
      ELSE FieldFail
  ELSE IF key = KeyContent THEN
    IF IsString(val) /\ "content" \notin seen
      THEN [ok |-> TRUE, seen |-> seen \cup {"content"},
            entry |-> [e EXCEPT !.content = Unescape(val.s).v]]
      ELSE FieldFail
  ELSE IF key = KeyTimestamp THEN
    IF IsU64(val) /\ "timestamp" \notin seen
      THEN [ok |-> TRUE, seen |-> seen \cup {"timestamp"},
            entry |-> [e EXCEPT !.timestamp = val.n]]
      ELSE FieldFail
  ELSE IF key = KeyFavorite THEN
    IF IsBool(val) /\ "favorite" \notin seen
      THEN [ok |-> TRUE, seen |-> seen \cup {"favorite"},
            entry |-> [e EXCEPT !.favorite = (val.k = "true")]]
      ELSE FieldFail
  ELSE IF IsScalar(val) THEN [ok |-> TRUE, seen |-> seen, entry |-> e]
  ELSE FieldFail

AllFields == {"id", "content", "timestamp", "favorite"}

\* the members of an object from token i on (a key is expected at i)
RECURSIVE ParseMembers(_, _, _, _)
ParseMembers(toks, i, seen, e) ==
  LET key == Tok(toks, i)
      val == Tok(toks, i + 2)
      sep == Tok(toks, i + 3)
  IN  IF ~IsString(key) \/ Tok(toks, i + 1).k # ":" THEN ParseFail
      ELSE LET f == Field(seen, e, Unescape(key.s).v, val)
           IN  IF ~f.ok THEN ParseFail
               ELSE IF sep.k = "," THEN ParseMembers(toks, i + 4, f.seen, f.entry)
               ELSE IF sep.k = "}" /\ f.seen = AllFields
                 THEN [ok |-> TRUE, next |-> i + 4, entry |-> f.entry]
               ELSE ParseFail

\* one ClipboardEntry from token i on
ParseEntry(toks, i) ==
  IF Tok(toks, i).k = "{" THEN
    IF Tok(toks, i + 1).k = "}" THEN ParseFail
    ELSE ParseMembers(toks, i + 1, {}, NoEntry)
  ELSE IF Tok(toks, i).k = "[" THEN
    IF /\ IsU64(Tok(toks, i + 1)) /\ Tok(toks, i + 2).k = ","
       /\ IsString(Tok(toks, i + 3)) /\ Tok(toks, i + 4).k = ","
       /\ IsU64(Tok(toks, i + 5)) /\ Tok(toks, i + 6).k = ","
       /\ IsBool(Tok(toks, i + 7)) /\ Tok(toks, i + 8).k = "]"
      THEN [ok |-> TRUE, next |-> i + 9,
            entry |-> ClipboardEntry(Tok(toks, i + 1).n,
                                     Unescape(Tok(toks, i + 3).s).v,
                                     Tok(toks, i + 5).n,
                                     Tok(toks, i + 7).k = "true")]
      ELSE ParseFail
  ELSE ParseFail

\* the elements of the outer array from token i on (an element is expected)
RECURSIVE ParseElements(_, _, _)
ParseElements(toks, i, acc) ==
  LET r == ParseEntry(toks, i)
  IN  IF ~r.ok THEN [ok |-> FALSE, v |-> << >>]
      ELSE IF Tok(toks, r.next).k = ","
        THEN ParseElements(toks, r.next + 1, Append(acc, r.entry))
      ELSE IF Tok(toks, r.next).k = "]" /\ r.next = Len(toks)
        THEN [ok |-> TRUE, v |-> Append(acc, r.entry)]
      ELSE [ok |-> FALSE, v |-> << >>]

\* a reader that stops at the end of the array and ignores what follows it
RECURSIVE ParseElementsLenient(_, _, _)
ParseElementsLenient(toks, i, acc) ==
  LET r == ParseEntry(toks, i)
  IN  IF ~r.ok THEN [ok |-> FALSE, v |-> << >>]
      ELSE IF Tok(toks, r.next).k = ","
        THEN ParseElementsLenient(toks, r.next + 1, Append(acc, r.entry))
      ELSE IF Tok(toks, r.next).k = "]"
        THEN [ok |-> TRUE, v |-> Append(acc, r.entry)]
      ELSE [ok |-> FALSE, v |-> << >>]

\* from_str without the end-of-input check
from_str_lenient(toks) ==
  IF Tok(toks, 1).k # "[" THEN [ok |-> FALSE, v |-> << >>]
  ELSE IF Tok(toks, 2).k = "]" THEN [ok |-> TRUE, v |-> << >>]
  ELSE ParseElementsLenient(toks, 2, << >>)

\* serde_json::from_str (main.rs:112)
from_str(toks) ==
  IF Tok(toks, 1).k # "[" THEN [ok |-> FALSE, v |-> << >>]
  ELSE IF Tok(toks, 2).k = "]" THEN [ok |-> Len(toks) = 2, v |-> << >>]
  ELSE ParseElements(toks, 2, << >>)

(***************************************************************************)
(* The history file: missing, present but not readable as text             *)
(* (fs::read_to_string fails), or text.                                    *)
(***************************************************************************)
MissingFile == [kind |-> "missing", bytes |-> << >>]
UnreadableFile == [kind |-> "unreadable", bytes |-> << >>]
TextFile(toks) == [kind |-> "text", bytes |-> toks]

\* CopyCatApp::load_history
load_history(f) ==
  IF f.kind = "missing" THEN << >>
  ELSE IF f.kind = "unreadable" THEN << >>
  ELSE LET r == from_str(f.bytes)
       IN  IF r.ok THEN r.v ELSE << >>

\* what fs::write(&self.history_file, json) can do: write everything; fail
\* before touching the file; create or truncate the file and then fail with
\* nothing or with only a part written
WriteOutcomes == {"ok", "denied", "empty", "partial"}

WriteFile(f, json, outcome) ==
  IF outcome = "ok" THEN TextFile(json)
  ELSE IF outcome = "denied" THEN f
  ELSE IF outcome = "empty" THEN TextFile(<< >>)
  ELSE TextFile(SubSeq(json, 1, Len(json) \div 2))

\* CopyCatApp::save_history: the file afterwards (the store is only read)
save_history(h, f, outcome) == WriteFile(f, to_string(h), outcome)

(***************************************************************************)
(* The history store's operations on the value of clipboard_history.       *)
(* Each returns the new store and whether it went on to save_history.      *)
(***************************************************************************)
\* a duplicate check that never finds one
is_duplicate_never(h, content) == FALSE

\* main.rs:146: some entry already has this content
is_duplicate(h, content) == \E i \in 1..Len(h) : h[i].content = content

\* eviction that starts one entry too late
evict_above_capacity(h) ==
  LET index == FirstNonFavorite(h)
  IN  IF Len(h) > MAX_HISTORY
        THEN IF index # 0 THEN RemoveAt(h, index) ELSE PopBack(h)
        ELSE h

\* eviction that drops the front entry of an all-favorite store
evict_front_when_all_favorite(h) ==
  LET index == FirstNonFavorite(h)
  IN  IF Len(h) >= MAX_HISTORY
        THEN IF index # 0 THEN RemoveAt(h, index) ELSE Tail(h)
        ELSE h

\* eviction that always drops the back entry
evict_back(h) == IF Len(h) >= MAX_HISTORY THEN PopBack(h) ELSE h

\* main.rs:152-161: make room in a full store: the first entry from the
\* front that is not favorite goes, or the back entry when all are favorite
evict(h) ==
  LET index == FirstNonFavorite(h)
  IN  IF Len(h) >= MAX_HISTORY
        THEN IF index # 0 THEN RemoveAt(h, index) ELSE PopBack(h)
        ELSE h

\* an ingest that moves a duplicate to the front and saves
add_to_history_move_to_front(h, content, ms) ==
  IF is_duplicate(h, content)
    THEN LET index == CHOOSE i \in 1..Len(h) : h[i].content = content
         IN  [h |-> PushFront(RemoveAt(h, index), h[index]), saved |-> TRUE]
    ELSE [h |-> PushFront(evict(h), NewEntry(content, ms)), saved |-> TRUE]

\* CopyCatApp::add_to_history (main.rs:144-165)
add_to_history(h, content, ms) ==
  IF is_duplicate(h, content)
    THEN [h |-> h, saved |-> FALSE]
    ELSE [h |-> PushFront(evict(h), NewEntry(content, ms)), saved |-> TRUE]

\* a toggle that does not save
toggle_favorite_unsaved(h, id) ==
  LET index == FirstWithId(h, id)
  IN  IF index # 0
        THEN [h |-> [h EXCEPT ![index].favorite = ~h[index].favorite], saved |-> FALSE]
        ELSE [h |-> h, saved |-> FALSE]

\* a toggle that marks the entry favorite whatever it was
toggle_favorite_sets(h, id) ==
  LET index == FirstWithId(h, id)
  IN  IF index # 0
        THEN [h |-> [h EXCEPT ![index].favorite = TRUE], saved |-> TRUE]
        ELSE [h |-> h, saved |-> FALSE]

\* CopyCatApp::toggle_favorite (main.rs:189-194)
toggle_favorite(h, id) ==
  LET index == FirstWithId(h, id)
  IN  IF index # 0
        THEN [h |-> [h EXCEPT ![index].favorite = ~h[index].favorite], saved |-> TRUE]
        ELSE [h |-> h, saved |-> FALSE]

\* a delete that saves whether or not it found the entry
delete_entry_always_saves(h, id) ==
  LET index == FirstWithId(h, id)
  IN  IF index # 0
        THEN [h |-> RemoveAt(h, index), saved |-> TRUE]
        ELSE [h |-> h, saved |-> TRUE]

\* update, Action::Delete(id) (main.rs:331-337)
delete_entry(h, id) ==
  LET index == FirstWithId(h, id)
  IN  IF index # 0
        THEN [h |-> RemoveAt(h, index), saved |-> TRUE]
        ELSE [h |-> h, saved |-> FALSE]

\* update, "Clear All"
clear_all(h) == [h |-> << >>, saved |-> TRUE]

\* update, "Clear Non-Favorites"
clear_non_favorites(h) == [h |-> SelectSeq(h, LAMBDA e : e.favorite), saved |-> TRUE]

(***************************************************************************)
(* CopyCatApp::filtered_history.                                           *)
(***************************************************************************)
LowerChar(c) == IF c = "A" THEN "a" ELSE IF c = "B" THEN "b" ELSE c
to_lowercase(t) == [i \in 1..Len(t) |-> LowerChar(t[i])]

\* str::contains
ContainsStr(t, pat) ==
  \E i \in 0..(Len(t) - Len(pat)) : SubSeq(t, i + 1, i + Len(pat)) = pat

\* a filter whose search compares the characters as they are
filtered_history_case_sensitive(h, query, favorites_only) ==
  SelectSeq(h, LAMBDA e :
    IF favorites_only /\ ~e.favorite THEN FALSE
    ELSE IF query # << >> THEN ContainsStr(e.content, query)
    ELSE TRUE)

\* CopyCatApp::filtered_history (main.rs:173-187)
filtered_history(h, query, favorites_only) ==
  SelectSeq(h, LAMBDA e :
    IF favorites_only /\ ~e.favorite THEN FALSE
    ELSE IF query # << >>
      THEN ContainsStr(to_lowercase(e.content), to_lowercase(query))
    ELSE TRUE)

(***************************************************************************)
(* State.  The fields of CopyCatApp (main.rs:70-80), the world around the  *)
(* process (OS clipboard, history file, the number of writes to it that    *)
(* will still fail, wall clock), the position inside                       *)
(* update (pc) with the intents collected for this cycle (actions), and a  *)
(* record of what the last step did (ev), which the properties read.       *)
(* Two more records for the properties: cycle holds the store as the       *)
(* filtered view of this cycle was built from it and the intents collected *)
(* from that view; deleted_on_clipboard says that the text now on the OS   *)
(* clipboard is the content of an entry deleted since that text was put    *)
(* there.                                                                  *)
(***************************************************************************)
VARIABLES clipboard_history, search_query, last_clipboard_content,
          filter_favorites, selected_entry, last_poll,
          os_clipboard, file, faults_left, now, pc, actions, ev,
          cycle, deleted_on_clipboard

app_vars == <<clipboard_history, search_query, last_clipboard_content,
              filter_favorites, selected_entry, last_poll>>
vars == <<clipboard_history, search_query, last_clipboard_content,
          filter_favorites, selected_entry, last_poll,
          os_clipboard, file, faults_left, now, pc, actions, ev,
          cycle, deleted_on_clipboard>>

NoneId == -1

\* no view has been built in this cycle yet
NoCycle == [store |-> << >>, intents |-> << >>]

\* the OS clipboard: Clipboard::get_text fails (no text on it) or gives text
NoClip == [ok |-> FALSE, text |-> << >>]
Clip(t) == [ok |-> TRUE, text |-> t]
ClipboardValues == {NoClip} \cup {Clip(t) : t \in Texts \cup {EmptyText}}

\* what the search box can hold
Queries == {EmptyText, <<"a">>}

\* Action (main.rs:198-203)
ToggleFavorite(id) == [kind |-> "toggle", id |-> id, content |-> << >>]
Select(id, content) == [kind |-> "select", id |-> id, content |-> content]
Copy(content) == [kind |-> "copy", id |-> NoneId, content |-> content]
Delete(id) == [kind |-> "delete", id |-> id, content |-> << >>]

\* what the last step did
Ev(op, before, file_before, text, id, write) ==
  [op |-> op, before |-> before, file_before |-> file_before,
   text |-> text, id |-> id, write |-> write]

WriteResult(outcome) == IF outcome = "ok" THEN "ok" ELSE "failed"

\* files that are not a saved history: an empty file, an object instead of
\* an array, an entry without its favorite field, an entry whose id is a
\* string, an entry with a negative id, a saved history followed by a token
SampleEntry == ClipboardEntry(1, <<"a">>, 1, FALSE)
MalformedSamples ==
  { << >>,
    <<Punct("{"), Punct("}")>>,
    <<Punct("["), Punct("{"),
      StrTok(KeyId), Punct(":"), NumTok(1), Punct(","),
      StrTok(KeyContent), Punct(":"), StrTok(<<"a">>), Punct(","),
      StrTok(KeyTimestamp), Punct(":"), NumTok(1),
      Punct("}"), Punct("]")>>,
    <<Punct("["), Punct("{"),
      StrTok(KeyId), Punct(":"), StrTok(<<"1">>), Punct(","),
      StrTok(KeyContent), Punct(":"), StrTok(<<"a">>), Punct(","),
      StrTok(KeyTimestamp), Punct(":"), NumTok(1), Punct(","),
      StrTok(KeyFavorite), Punct(":"), BoolTok(FALSE),
      Punct("}"), Punct("]")>>,
    to_string(<<ClipboardEntry(-1, <<"a">>, 1, FALSE)>>),
    to_string(<<SampleEntry>>) \o <<Punct("]")>> }

InitFiles == {MissingFile, UnreadableFile} \cup {TextFile(g) : g \in MalformedSamples}

\* the process has just been constructed (CopyCatApp::new) with `faults`
\* failing writes ahead of it
InitWith(faults) ==
  /\ file \in InitFiles
  /\ clipboard_history = load_history(file)
  /\ search_query = << >>
  /\ last_clipboard_content = << >>
  /\ filter_favorites = FALSE
  /\ selected_entry = NoneId
  /\ last_poll = 0
  /\ os_clipboard = NoClip
  /\ faults_left = faults
  /\ now = StartMs
  /\ pc = "update"
  /\ actions = << >>
  /\ ev = Ev("load", << >>, file, << >>, NoneId, "none")
  /\ cycle = NoCycle
  /\ deleted_on_clipboard = FALSE

\* every write succeeds
Init == InitWith(0)

\* up to MaxWriteFaults writes fail
InitFault == InitWith(MaxWriteFaults)

(***************************************************************************)
(* The world between two update cycles.                                    *)
(***************************************************************************)
\* the wall clock advances
Tick ==
  /\ pc = "update"
  /\ now + TickMs <= MaxClock
  /\ now' = now + TickMs
  /\ ev' = Ev("none", clipboard_history, file, << >>, NoneId, "none")
  /\ UNCHANGED <<app_vars, os_clipboard, file, faults_left, pc, actions,
                 cycle, deleted_on_clipboard>>

\* another application puts something on the OS clipboard, or empties it
OsCopy ==
  /\ pc = "update"
  /\ \E c \in ClipboardValues \ {os_clipboard} : os_clipboard' = c
  /\ ev' = Ev("none", clipboard_history, file, << >>, NoneId, "none")
  /\ deleted_on_clipboard' = FALSE
  /\ UNCHANGED <<app_vars, file, faults_left, now, pc, actions, cycle>>

\* the process ends and the program is run again: main and CopyCatApp::new
\* (main.rs:83-105); process::exit(1) when the clipboard cannot be opened
Start ==
  /\ pc \in {"update", "exited"}
  /\ \E clipboard_ok \in BOOLEAN :
       /\ clipboard_history' = IF clipboard_ok THEN load_history(file) ELSE << >>
       /\ pc' = IF clipboard_ok THEN "update" ELSE "exited"
       /\ ev' = Ev(IF clipboard_ok THEN "load" ELSE "exit",
                   clipboard_history, file, << >>, NoneId, "none")
  /\ search_query' = << >>
  /\ last_clipboard_content' = << >>
  /\ filter_favorites' = FALSE
  /\ selected_entry' = NoneId
  /\ last_poll' = 0
  /\ actions' = << >>
  /\ cycle' = NoCycle
  /\ deleted_on_clipboard' = FALSE
  /\ UNCHANGED <<os_clipboard, file, faults_left, now>>

(***************************************************************************)
(* update (main.rs:215-361), one step per part of the cycle.               *)
(***************************************************************************)
\* the outcomes a write can have now: a write can fail while faults are left
AllowedOutcomes == IF faults_left > 0 THEN WriteOutcomes ELSE {"ok"}

\* a store operation that is undone when its write fails
Mutate_rollback(op, r, text, id) ==
  \E w \in (IF r.saved THEN AllowedOutcomes ELSE {"ok"}) :
    /\ clipboard_history' = IF r.saved /\ w # "ok" THEN clipboard_history ELSE r.h
    /\ file' = IF r.saved THEN save_history(r.h, file, w) ELSE file
    /\ faults_left' = IF r.saved /\ w # "ok"
                        THEN faults_left - 1 ELSE faults_left
    /\ ev' = Ev(op, clipboard_history, file, text, id,
                IF r.saved THEN WriteResult(w) ELSE "none")

\* a store operation followed by save_history when the operation asks for it
\* (main.rs:163-164, 191-192, 334-335, 346-347, 351-352)
Mutate(op, r, text, id) ==
  /\ clipboard_history' = r.h
  /\ \E w \in (IF r.saved THEN AllowedOutcomes ELSE {"ok"}) :
       /\ file' = IF r.saved THEN save_history(r.h, file, w) ELSE file
       /\ faults_left' = IF r.saved /\ w # "ok"
                         THEN faults_left - 1 ELSE faults_left
       /\ ev' = Ev(op, clipboard_history, file, text, id,
                   IF r.saved THEN WriteResult(w) ELSE "none")

\* now - self.last_poll (main.rs:222) in a build that wraps
Elapsed == sub_u64(now, last_poll).value

\* main.rs:222: the poll is not due
PollNotDue ==
  /\ pc = "update"
  /\ ~(Elapsed > POLL_INTERVAL_MS)
  /\ pc' = "render"
  /\ ev' = Ev("poll_not_due", clipboard_history, file, << >>, NoneId, "none")
  /\ UNCHANGED <<app_vars, os_clipboard, file, faults_left, now, actions,
                 cycle, deleted_on_clipboard>>

\* a poll that remembers whatever text it read
PollNothing_remembers ==
  /\ pc = "update"
  /\ Elapsed > POLL_INTERVAL_MS
  /\ ~(os_clipboard.ok /\ os_clipboard.text # << >>
        /\ os_clipboard.text # last_clipboard_content)
  /\ last_clipboard_content' =
       IF os_clipboard.ok THEN os_clipboard.text ELSE last_clipboard_content
  /\ last_poll' = now
  /\ pc' = "render"
  /\ ev' = Ev("poll_nothing", clipboard_history, file, << >>, NoneId, "none")
  /\ UNCHANGED <<clipboard_history, search_query,
                 filter_favorites, selected_entry, os_clipboard, file, faults_left,
                 now, actions, cycle, deleted_on_clipboard>>

\* main.rs:222-225 with poll_clipboard (main.rs:135-142) finding nothing new:
\* the read fails, or gives the empty text or the last-seen text
PollNothing ==
  /\ pc = "update"
  /\ Elapsed > POLL_INTERVAL_MS
  /\ ~(os_clipboard.ok /\ os_clipboard.text # << >>
        /\ os_clipboard.text # last_clipboard_content)
  /\ last_poll' = now
  /\ pc' = "render"
  /\ ev' = Ev("poll_nothing", clipboard_history, file, << >>, NoneId, "none")
  /\ UNCHANGED <<clipboard_history, search_query, last_clipboard_content,
                 filter_favorites, selected_entry, os_clipboard, file, faults_left,
                 now, actions, cycle, deleted_on_clipboard>>

\* a due poll that takes no notice of a new text
PollIngest_skips ==
  /\ pc = "update"
  /\ Elapsed > POLL_INTERVAL_MS
  /\ os_clipboard.ok
  /\ os_clipboard.text # << >>
  /\ os_clipboard.text # last_clipboard_content
  /\ last_poll' = now
  /\ pc' = "render"
  /\ ev' = Ev("poll_nothing", clipboard_history, file, << >>, NoneId, "none")
  /\ UNCHANGED <<clipboard_history, search_query, last_clipboard_content,
                 filter_favorites, selected_entry, os_clipboard, file, faults_left,
                 now, actions, cycle, deleted_on_clipboard>>

\* main.rs:222-225 with poll_clipboard passing a new text to add_to_history
PollIngest ==
  /\ pc = "update"
  /\ Elapsed > POLL_INTERVAL_MS
  /\ os_clipboard.ok
  /\ os_clipboard.text # << >>
  /\ os_clipboard.text # last_clipboard_content
  /\ last_clipboard_content' = os_clipboard.text
  /\ Mutate("ingest", add_to_history(clipboard_history, os_clipboard.text, now),
            os_clipboard.text, NoneId)
  /\ last_poll' = now
  /\ pc' = "render"
  /\ UNCHANGED <<search_query, filter_favorites, selected_entry, os_clipboard,
                 now, actions, cycle, deleted_on_clipboard>>

\* the intents the rows of entries_data offer (main.rs:282-318)
RowIntents(rows) ==
  UNION {{ToggleFavorite(rows[i].id), Select(rows[i].id, rows[i].content),
          Copy(rows[i].content), Delete(rows[i].id)} : i \in 1..Len(rows)}

SeqsUpTo(S, n) == UNION {[1..k -> S] : k \in 0..n}

\* main.rs:238-242: the user edits the search box or ticks the checkbox
EditFilters ==
  /\ pc = "render"
  /\ \E q \in Queries, f \in BOOLEAN :
       /\ <<q, f>> # <<search_query, filter_favorites>>
       /\ search_query' = q
       /\ filter_favorites' = f
  /\ ev' = Ev("edit", clipboard_history, file, << >>, NoneId, "none")
  /\ UNCHANGED <<clipboard_history, last_clipboard_content, selected_entry,
                 last_poll, os_clipboard, file, faults_left, now, pc, actions,
                 cycle, deleted_on_clipboard>>

\* the entries update walks to build entries_data (main.rs:252, 260)
ViewEntries == filtered_history(clipboard_history, search_query, filter_favorites)

\* entry.formatted_time(): now - self.timestamp overflows (main.rs:56)
FormattedTimeOverflows(e) == sub_u64(NowSecs(now), e.timestamp).overflow

\* a cycle that queues the clicks in the opposite order
RenderUpTo_reversed(n) ==
  /\ pc = "render"
  /\ \E acts \in SeqsUpTo(RowIntents(filtered_history(clipboard_history,
                              search_query, filter_favorites)), n) :
       /\ actions' = [k \in 1..Len(acts) |-> acts[Len(acts) + 1 - k]]
       /\ cycle' = [store |-> clipboard_history, intents |-> acts]
       /\ pc' = IF acts = << >> THEN "clear_all" ELSE "process"
  /\ ev' = Ev("render", clipboard_history, file, << >>, NoneId, "none")
  /\ UNCHANGED <<app_vars, os_clipboard, file, faults_left, now,
                 deleted_on_clipboard>>

\* main.rs:250-320: entries_data is built from filtered_history, and the
\* clicks of this cycle are collected, at most n of them
RenderUpTo(n) ==
  /\ pc = "render"
  /\ \A i \in 1..Len(ViewEntries) : ~PreviewPanics(ViewEntries[i].content)
  /\ \E acts \in SeqsUpTo(RowIntents(filtered_history(clipboard_history,
                              search_query, filter_favorites)), n) :
       /\ actions' = acts
       /\ cycle' = [store |-> clipboard_history, intents |-> acts]
       /\ pc' = IF acts = << >> THEN "clear_all" ELSE "process"
  /\ ev' = Ev("render", clipboard_history, file, << >>, NoneId, "none")
  /\ UNCHANGED <<app_vars, os_clipboard, file, faults_left, now,
                 deleted_on_clipboard>>

\* main.rs:260-272: building a row panics: the preview cuts a character in
\* two, or (in a build with overflow checks) the age subtraction overflows
RenderPanics ==
  /\ pc = "render"
  /\ \E i \in 1..Len(ViewEntries) :
       \/ PreviewPanics(ViewEntries[i].content)
       \/ FormattedTimeOverflows(ViewEntries[i])
  /\ pc' = "panicked"
  /\ ev' = Ev("panic", clipboard_history, file, << >>, NoneId, "none")
  /\ UNCHANGED <<app_vars, os_clipboard, file, faults_left, now, actions,
                 cycle, deleted_on_clipboard>>

\* main.rs:222 in a build with overflow checks: now - self.last_poll
\* overflows and update panics
PollPanics ==
  /\ pc = "update"
  /\ sub_u64(now, last_poll).overflow
  /\ pc' = "panicked"
  /\ ev' = Ev("panic", clipboard_history, file, << >>, NoneId, "none")
  /\ UNCHANGED <<app_vars, os_clipboard, file, faults_left, now, actions,
                 cycle, deleted_on_clipboard>>

\* the wall clock is set back (SystemTime is not monotonic)
ClockSetBack ==
  /\ pc = "update"
  /\ now - TickMs >= StartMs
  /\ now' = now - TickMs
  /\ ev' = Ev("none", clipboard_history, file, << >>, NoneId, "none")
  /\ UNCHANGED <<app_vars, os_clipboard, file, faults_left, pc, actions,
                 cycle, deleted_on_clipboard>>

\* another application puts a long text on the OS clipboard
OsCopyLong ==
  /\ pc = "update"
  /\ os_clipboard # Clip(LongText)
  /\ os_clipboard' = Clip(LongText)
  /\ deleted_on_clipboard' = FALSE
  /\ ev' = Ev("none", clipboard_history, file, << >>, NoneId, "none")
  /\ UNCHANGED <<app_vars, file, faults_left, now, pc, actions, cycle>>

\* a cycle with at most one click
Render == RenderUpTo(MaxIntents)

\* a cycle with several clicks
RenderCycle == RenderUpTo(MaxIntentsCycle)

AfterAction == IF Tail(actions) = << >> THEN "clear_all" ELSE "process"

\* main.rs:325
DoToggleFavorite ==
  /\ pc = "process" /\ actions # << >> /\ Head(actions).kind = "toggle"
  /\ Mutate("toggle", toggle_favorite(clipboard_history, Head(actions).id),
            << >>, Head(actions).id)
  /\ actions' = Tail(actions)
  /\ pc' = AfterAction
  /\ UNCHANGED <<search_query, last_clipboard_content, filter_favorites,
                 selected_entry, last_poll, os_clipboard, now,
                 cycle, deleted_on_clipboard>>

\* CopyCatApp::copy_to_clipboard: Clipboard::set_text may fail
copy_to_clipboard(content, set_ok) ==
  /\ os_clipboard' = IF set_ok THEN Clip(content) ELSE os_clipboard
  /\ deleted_on_clipboard' =
       IF set_ok /\ Clip(content) # os_clipboard THEN FALSE ELSE deleted_on_clipboard

\* main.rs:326-329
DoSelect ==
  /\ pc = "process" /\ actions # << >> /\ Head(actions).kind = "select"
  /\ selected_entry' = Head(actions).id
  /\ \E set_ok \in BOOLEAN : copy_to_clipboard(Head(actions).content, set_ok)
  /\ actions' = Tail(actions)
  /\ pc' = AfterAction
  /\ ev' = Ev("select", clipboard_history, file, Head(actions).content,
              Head(actions).id, "none")
  /\ UNCHANGED <<clipboard_history, search_query, last_clipboard_content,
                 filter_favorites, last_poll, file, faults_left, now, cycle>>

\* main.rs:330
DoCopy ==
  /\ pc = "process" /\ actions # << >> /\ Head(actions).kind = "copy"
  /\ \E set_ok \in BOOLEAN : copy_to_clipboard(Head(actions).content, set_ok)
  /\ actions' = Tail(actions)
  /\ pc' = AfterAction
  /\ ev' = Ev("copy", clipboard_history, file, Head(actions).content, NoneId, "none")
  /\ UNCHANGED <<app_vars, file, faults_left, now, cycle>>

\* main.rs:331-337
DoDelete ==
  /\ pc = "process" /\ actions # << >> /\ Head(actions).kind = "delete"
  /\ Mutate("delete", delete_entry(clipboard_history, Head(actions).id),
            << >>, Head(actions).id)
  /\ actions' = Tail(actions)
  /\ pc' = AfterAction
  /\ deleted_on_clipboard' =
       LET index == FirstWithId(clipboard_history, Head(actions).id)
       IN  IF index # 0 /\ os_clipboard = Clip(clipboard_history[index].content)
             THEN TRUE ELSE deleted_on_clipboard
  /\ UNCHANGED <<search_query, last_clipboard_content, filter_favorites,
                 selected_entry, last_poll, os_clipboard, now, cycle>>

\* main.rs:345-348
ClearAllButton ==
  /\ pc = "clear_all"
  /\ \E clicked \in BOOLEAN :
       IF clicked
         THEN Mutate("clear_all", clear_all(clipboard_history), << >>, NoneId)
         ELSE /\ ev' = Ev("none", clipboard_history, file, << >>, NoneId, "none")
              /\ UNCHANGED <<clipboard_history, file, faults_left>>
  /\ pc' = "clear_nf"
  /\ cycle' = NoCycle
  /\ UNCHANGED <<search_query, last_clipboard_content, filter_favorites,
                 selected_entry, last_poll, os_clipboard, now, actions,
                 deleted_on_clipboard>>

\* main.rs:350-353; the cycle ends
ClearNonFavoritesButton ==
  /\ pc = "clear_nf"
  /\ \E clicked \in BOOLEAN :
       IF clicked
         THEN Mutate("clear_nf", clear_non_favorites(clipboard_history), << >>, NoneId)
         ELSE /\ ev' = Ev("none", clipboard_history, file, << >>, NoneId, "none")
              /\ UNCHANGED <<clipboard_history, file, faults_left>>
  /\ pc' = "update"
  /\ UNCHANGED <<search_query, last_clipboard_content, filter_favorites,
                 selected_entry, last_poll, os_clipboard, now, actions,
                 cycle, deleted_on_clipboard>>

\* the program with a user who leaves the search box and the checkbox alone
NextCore ==
  \/ Tick
  \/ OsCopy
  \/ Start
  \/ PollNotDue
  \/ PollNothing
  \/ PollIngest
  \/ Render
  \/ DoToggleFavorite
  \/ DoSelect
  \/ DoCopy
  \/ DoDelete
  \/ ClearAllButton
  \/ ClearNonFavoritesButton

Next == NextCore \/ EditFilters

\* the program on a disk that takes every write
Spec == Init /\ [][Next]_vars

\* the program on a disk where writes can fail
SpecFault == InitFault /\ [][NextCore]_vars

\* the program with a user who clicks several times within one cycle
NextCycle ==
  \/ Tick
  \/ OsCopy
  \/ Start
  \/ PollNotDue
  \/ PollNothing
  \/ PollIngest
  \/ RenderCycle
  \/ DoToggleFavorite
  \/ DoSelect
  \/ DoCopy
  \/ DoDelete
  \/ ClearAllButton
  \/ ClearNonFavoritesButton

SpecCycle == Init /\ [][NextCycle]_vars

\* the running process in a world where the clock can be set back and the
\* clipboard can hold a long text with characters of more than one byte
NextHostile ==
  \/ Tick
  \/ ClockSetBack
  \/ OsCopy
  \/ OsCopyLong
  \/ PollNotDue
  \/ PollNothing
  \/ PollIngest
  \/ PollPanics
  \/ Render
  \/ RenderPanics
  \/ DoToggleFavorite
  \/ DoSelect
  \/ DoCopy
  \/ DoDelete
  \/ ClearAllButton
  \/ ClearNonFavoritesButton

SpecHostile == Init /\ [][NextHostile]_vars

\* one step of update: egui calls update again and again, at the latest
\* POLL_INTERVAL_MS after the last call (request_repaint_after, main.rs:228)
UpdateStep ==
  \/ PollNotDue
  \/ PollNothing
  \/ PollIngest
  \/ Render
  \/ DoToggleFavorite
  \/ DoSelect
  \/ DoCopy
  \/ DoDelete
  \/ ClearAllButton
  \/ ClearNonFavoritesButton

\* a process that keeps running
NextLive ==
  \/ Tick
  \/ OsCopy
  \/ UpdateStep

\* the running process with update called for ever and a clock that
\* advances as long as the model's clock has room
SpecLive ==
  /\ Init
  /\ [][NextLive]_vars
  /\ WF_vars(UpdateStep)
  /\ SF_vars(Tick)

(***************************************************************************)
(* Properties.  ev holds the store and the file as they were before the    *)
(* last step, so a property of an operation reads "before" from ev and     *)
(* "after" from the state.                                                 *)
(***************************************************************************)
Entries(h) == {h[i] : i \in 1..Len(h)}
AllFavorite(h) == \A i \in 1..Len(h) : h[i].favorite
SomeNonFavorite(h) == \E i \in 1..Len(h) : ~h[i].favorite

\* the last step was an ingest of a text the store did not hold
IngestedNew == ev.op = "ingest" /\ ev.text \notin Contents(ev.before)
\* the last step was an ingest of a text the store already held
IngestedDuplicate == ev.op = "ingest" /\ ev.text \in Contents(ev.before)

\* the index of the oldest non-favorite entry: the one nearest the back
OldestNonFavorite(h) ==
  CHOOSE i \in 1..Len(h) :
    ~h[i].favorite /\ \A j \in (i + 1)..Len(h) : h[j].favorite

\* C1: when the store holds MAX_HISTORY entries, some of them not favorite,
\* and a text it does not hold is ingested, the entry removed is the oldest
\* non-favorite one: the rest of the store is the old store without it.
C1_EvictsOldestNonFavorite ==
  (IngestedNew /\ Len(ev.before) = MAX_HISTORY /\ SomeNonFavorite(ev.before))
    => Tail(clipboard_history)
         = RemoveAt(ev.before, OldestNonFavorite(ev.before))

\* C2: the store never holds more than MAX_HISTORY entries.
C2_SizeBounded == Len(clipboard_history) <= MAX_HISTORY

C2_Witness ==
  /\ IngestedNew
  /\ Len(ev.before) = MAX_HISTORY
  /\ Len(clipboard_history) = MAX_HISTORY

\* C3: ingesting a new text into a full store whose entries are all favorite
\* removes the entry at the back, puts the new entry at the front and leaves
\* MAX_HISTORY entries.
C3_AllFavoriteEvictsBack ==
  (IngestedNew /\ Len(ev.before) = MAX_HISTORY /\ AllFavorite(ev.before))
    => /\ Len(clipboard_history) = MAX_HISTORY
       /\ clipboard_history[1].content = ev.text
       /\ ~clipboard_history[1].favorite
       /\ Tail(clipboard_history) = SubSeq(ev.before, 1, MAX_HISTORY - 1)

C3_Witness ==
  /\ IngestedNew
  /\ Len(ev.before) = MAX_HISTORY
  /\ AllFavorite(ev.before)
  /\ ev.before[MAX_HISTORY] \notin Entries(clipboard_history)

\* C4: an ingest never removes a favorite entry while the store holds a
\* non-favorite one.
C4_FavoritesSurvive ==
  (ev.op = "ingest" /\ SomeNonFavorite(ev.before))
    => \A i \in 1..Len(ev.before) :
         ev.before[i].favorite => ev.before[i] \in Entries(clipboard_history)

C4_Witness ==
  /\ IngestedNew
  /\ Len(ev.before) = MAX_HISTORY
  /\ SomeNonFavorite(ev.before)
  /\ ev.before[MAX_HISTORY].favorite
  /\ ev.before[MAX_HISTORY] \in Entries(clipboard_history)

\* C5: ingesting a text the store already holds changes neither the store
\* nor the file, and writes nothing.
C5_DuplicateIsNoOp ==
  IngestedDuplicate
    => /\ clipboard_history = ev.before
       /\ file = ev.file_before
       /\ ev.write = "none"

\* A, B, A: the text at the back of a store of two is ingested again
C5_Witness ==
  /\ IngestedDuplicate
  /\ Len(ev.before) = 2
  /\ ev.before[2].content = ev.text
  /\ clipboard_history = ev.before

\* C6: no two entries of the store have the same content.
C6_NoDuplicateContent ==
  \A i, j \in 1..Len(clipboard_history) :
    clipboard_history[i].content = clipboard_history[j].content => i = j

\* the text of the newest entry came off the clipboard again
C6_Witness ==
  /\ IngestedDuplicate
  /\ Len(clipboard_history) >= 2
  /\ clipboard_history[1].content = ev.text

\* the file holds exactly the entries of h, in order, with all their fields
FileHolds(f, h) ==
  /\ f.kind = "text"
  /\ from_str(f.bytes).ok
  /\ from_str(f.bytes).v = h

\* the last step was an operation that the store persists: an ingest of a new
\* text, a toggle or a delete of an id some entry has, or one of the clears
MutatingOperation ==
  \/ IngestedNew
  \/ ev.op \in {"toggle", "delete"} /\ \E i \in 1..Len(ev.before) : ev.before[i].id = ev.id
  \/ ev.op \in {"clear_all", "clear_nf"}

\* C7: every mutating operation writes the file, and when its write succeeds
\* the file holds exactly the store as the operation left it, whatever
\* became of earlier writes.
C7_FileHoldsStoreAfterWrite ==
  /\ MutatingOperation => ev.write \in {"ok", "failed"}
  /\ ev.write = "ok" => FileHolds(file, clipboard_history)

\* a toggle is written over a file that an earlier failed write left behind
C7_Witness ==
  /\ ev.op = "toggle"
  /\ ev.write = "ok"
  /\ faults_left < MaxWriteFaults
  /\ ~FileHolds(ev.file_before, ev.before)
  /\ clipboard_history # ev.before
  /\ FileHolds(file, clipboard_history)

\* C8: saving the store and loading the file that results gives the same
\* entries in the same order: for the store of every state, and for a
\* process started on the file its predecessor saved.
C8_RoundTrip ==
  /\ load_history(save_history(clipboard_history, file, "ok")) = clipboard_history
  /\ (ev.op = "load" /\ ev.file_before = save_history(ev.before, ev.file_before, "ok"))
       => clipboard_history = ev.before

\* a full store with a favorite and a text that needs escaping is loaded back
C8_Witness ==
  /\ ev.op = "load"
  /\ ev.file_before = save_history(ev.before, ev.file_before, "ok")
  /\ Len(ev.before) = MAX_HISTORY
  /\ \E i \in 1..Len(ev.before) : ev.before[i].favorite
  /\ \E i \in 1..Len(ev.before) : "\"" \in {ev.before[i].content[j] :
                                           j \in 1..Len(ev.before[i].content)}
  /\ clipboard_history = ev.before

\* a file that is no saved history: none at all, an unreadable one, one of
\* the malformed samples, or text that does not end with the closing bracket
\* (what a write that failed half way leaves)
NotAHistory(f) ==
  \/ f.kind \in {"missing", "unreadable"}
  \/ f \in InitFiles
  \/ f.kind = "text" /\ (f.bytes = << >> \/ f.bytes[Len(f.bytes)].k # "]")

\* C9: loading a missing, unreadable or malformed file gives an empty store,
\* the process runs on, and the file is left as it was.
C9_BadFileLoadsEmpty ==
  (ev.op = "load" /\ NotAHistory(ev.file_before))
    => /\ clipboard_history = << >>
       /\ pc = "update"
       /\ file = ev.file_before

\* a process with entries in memory is restarted on a half-written file
C9_Witness ==
  /\ ev.op = "load"
  /\ ev.file_before.kind = "text"
  /\ Len(ev.file_before.bytes) > 2
  /\ ev.file_before.bytes[Len(ev.file_before.bytes)].k # "]"
  /\ ev.before # << >>
  /\ clipboard_history = << >>
  /\ pc = "update"

\* what the operation of the last step makes of the store it found
Produced ==
  IF ev.op = "ingest" THEN add_to_history(ev.before, ev.text, now).h
  ELSE IF ev.op = "toggle" THEN toggle_favorite(ev.before, ev.id).h
  ELSE IF ev.op = "delete" THEN delete_entry(ev.before, ev.id).h
  ELSE IF ev.op = "clear_all" THEN clear_all(ev.before).h
  ELSE IF ev.op = "clear_nf" THEN clear_non_favorites(ev.before).h
  ELSE ev.before

\* C10: when a write fails the store is what the operation produced and the
\* process runs on; a step that saves nothing leaves the file alone (nothing
\* retries the write).
C10_FailedWriteKeepsMutation ==
  /\ ev.write = "failed" => (clipboard_history = Produced /\ pc # "exited")
  /\ ev.write = "none" => file = ev.file_before

\* a delete whose write failed: the entry is gone from memory, not from disk
C10_Witness ==
  /\ ev.op = "delete"
  /\ ev.write = "failed"
  /\ Len(clipboard_history) = Len(ev.before) - 1
  /\ FileHolds(file, ev.before)
  /\ pc # "exited"

Ids(h) == {h[i].id : i \in 1..Len(h)}
SharedId(h, id) == \E i, j \in 1..Len(h) : i # j /\ h[i].id = id /\ h[j].id = id

\* C11: toggling the same id twice in a row gives back the store as it was
\* before the first toggle (flags, order, length), also when several entries
\* share the id: for the toggle the last step made, and for every id on every
\* store the program reaches.
C11_DoubleToggleRestores ==
  /\ ev.op = "toggle"
       => toggle_favorite(clipboard_history, ev.id).h = ev.before
  /\ \A id \in Ids(clipboard_history) :
       toggle_favorite(toggle_favorite(clipboard_history, id).h, id).h
         = clipboard_history

\* a toggle has changed a store in which two entries share the toggled id
C11_Witness ==
  /\ ev.op = "toggle"
  /\ SharedId(ev.before, ev.id)
  /\ clipboard_history # ev.before
  /\ toggle_favorite(clipboard_history, ev.id).h = ev.before

\* the last step was a toggle or a delete of an id that no entry has
UnknownId == ev.op \in {"toggle", "delete"} /\ ev.id \notin Ids(ev.before)

\* C12: a toggle or a delete of an id that no entry has leaves the store and
\* the file as they were and writes nothing.
C12_UnknownIdIsNoOp ==
  UnknownId
    => /\ clipboard_history = ev.before
       /\ file = ev.file_before
       /\ ev.write = "none"

\* the second of two deletes of one id: the first has removed the entry
C12_Witness ==
  /\ UnknownId
  /\ ev.op = "delete"
  /\ ev.id \in Ids(cycle.store)
  /\ ev.before # << >>
  /\ clipboard_history = ev.before

\* the entry passes both filters
Matches(e, query, favorites_only) ==
  /\ ~favorites_only \/ e.favorite
  /\ query = << >> \/ ContainsStr(to_lowercase(e.content), to_lowercase(query))

\* v is the subsequence of h, in the order of h, of the entries that pass
IsFilteredView(v, h, query, favorites_only) ==
  LET keep == {i \in 1..Len(h) : Matches(h[i], query, favorites_only)}
  IN  /\ Len(v) = Cardinality(keep)
      /\ \E idx \in [1..Len(v) -> keep] :
           /\ \A k, l \in 1..Len(v) : k < l => idx[k] < idx[l]
           /\ \A k \in 1..Len(v) : v[k] = h[idx[k]]

\* C13: for every store, search string and favorites-only flag the filtered
\* view is exactly the entries, in store order, that are favorite (when the
\* flag is set) and contain the search string case-insensitively (when it is
\* not empty); building the view changes neither the store nor the file, and
\* the clicks of the cycle are clicks on rows of that view.
C13_FilteredView ==
  /\ \A q \in Queries, f \in BOOLEAN :
       IsFilteredView(filtered_history(clipboard_history, q, f),
                      clipboard_history, q, f)
  /\ ev.op = "render"
       => /\ clipboard_history = ev.before
          /\ file = ev.file_before
          /\ \E v \in SeqsUpTo(Entries(clipboard_history), Len(clipboard_history)) :
               /\ IsFilteredView(v, clipboard_history, search_query, filter_favorites)
               /\ \A k \in 1..Len(actions) : actions[k] \in RowIntents(v)

\* favorites only, search "a", over a favorite "A" and a non-favorite "a":
\* the view is the favorite alone, and a click on it was collected
C13_Witness ==
  /\ ev.op = "render"
  /\ filter_favorites
  /\ search_query = <<"a">>
  /\ Len(clipboard_history) = 2
  /\ \E i, j \in 1..2 :
       /\ clipboard_history[i].content = <<"A">> /\ clipboard_history[i].favorite
       /\ clipboard_history[j].content = <<"a">> /\ ~clipboard_history[j].favorite
  /\ actions # << >>
  /\ actions[1].id \in Ids(clipboard_history)

\* what one intent makes of the store
ApplyIntent(h, a) ==
  IF a.kind = "toggle" THEN toggle_favorite(h, a.id).h
  ELSE IF a.kind = "delete" THEN delete_entry(h, a.id).h
  ELSE h

\* the intents applied one after the other, the first one first
RECURSIVE ApplyAll(_, _)
ApplyAll(h, intents) ==
  IF intents = << >> THEN h
  ELSE ApplyAll(ApplyIntent(h, Head(intents)), Tail(intents))

\* how many of the intents of this cycle have been applied
NumApplied == Len(cycle.intents) - Len(actions)

\* C14: the intents of a cycle were collected from the view of the store as
\* it was before any of them was applied; they are applied in the order of
\* collection, so that at each point of the processing the store is the
\* sequential application of the intents applied so far, and when the
\* processing is over, of all of them.
C14_IntentsInCollectionOrder ==
  pc \in {"process", "clear_all"}
    => /\ \A k \in 1..Len(cycle.intents) :
            cycle.intents[k] \in RowIntents(filtered_history(cycle.store,
                                              search_query, filter_favorites))
       /\ NumApplied >= 0
       /\ actions = SubSeq(cycle.intents, NumApplied + 1, Len(cycle.intents))
       /\ clipboard_history
            = ApplyAll(cycle.store, SubSeq(cycle.intents, 1, NumApplied))
       /\ pc = "clear_all" => actions = << >>

\* delete(id) then toggle_favorite(id) in one cycle, the id being that of one
\* entry only: the toggle found nothing
C14_Witness ==
  /\ pc = "clear_all"
  /\ Len(cycle.intents) = 2
  /\ cycle.intents[1].kind = "delete"
  /\ cycle.intents[2] = ToggleFavorite(cycle.intents[1].id)
  /\ ~SharedId(cycle.store, cycle.intents[1].id)
  /\ Len(cycle.store) = 2
  /\ ev.op = "toggle"
  /\ ev.id \notin Ids(ev.before)
  /\ Len(clipboard_history) = 1
  /\ clipboard_history = ev.before

\* text t is on the OS clipboard and is not the last-seen text
Pending(t) == os_clipboard = Clip(t) /\ t # last_clipboard_content

\* the model's clock can reach a time at which the next poll is due
ClockRoom == MaxClock - last_poll > POLL_INTERVAL_MS

\* C15: a non-empty text that is on the OS clipboard, differs from the
\* last-seen text and stays there is eventually read by the poller: the
\* last-seen text becomes that text and the text is in the store, unless the
\* clipboard changes first.  A poll that ingests a new text leaves it at the
\* front of the store.
C15_PendingTextIsPolled ==
  /\ [](IngestedNew => clipboard_history[1].content = ev.text)
  /\ \A t \in Texts :
       (Pending(t) /\ ClockRoom)
         ~> \/ last_clipboard_content = t /\ t \in Contents(clipboard_history)
            \/ os_clipboard # Clip(t)

\* a text put on the clipboard after the first poll was read by a later poll,
\* once the clock had advanced far enough
C15_Witness ==
  /\ IngestedNew
  /\ ev.before # << >>
  /\ now > StartMs
  /\ last_poll = now
  /\ os_clipboard = Clip(ev.text)
  /\ last_clipboard_content = ev.text
  /\ clipboard_history[1].content = ev.text

\* the step read the OS clipboard
ClipboardRead == ev'.op \in {"poll_nothing", "ingest"}

\* the poll is due, and a read gives a non-empty text that is not the
\* last-seen one
NewTextDue ==
  /\ now - last_poll > POLL_INTERVAL_MS
  /\ os_clipboard.ok
  /\ os_clipboard.text # << >>
  /\ os_clipboard.text # last_clipboard_content

\* C16: the OS clipboard is read only in the poll step that opens a cycle
\* (so at most once per cycle) and only when more than the poll interval has
\* passed since the last poll; when it is not read, or the read fails or
\* gives the empty text or the last-seen text, the poll step leaves the
\* store, the last-seen text and the file as they were.
C16_PollGate ==
  [][ /\ ClipboardRead
           => /\ pc = "update" /\ pc' = "render"
              /\ now - last_poll > POLL_INTERVAL_MS
      /\ (pc = "update" /\ pc' = "render")
           => /\ ~(now - last_poll > POLL_INTERVAL_MS) => ~ClipboardRead
              /\ ~NewTextDue
                   => UNCHANGED <<clipboard_history, last_clipboard_content, file>>
    ]_vars

\* a due poll has read the text it had read before
C16_Witness ==
  /\ ev.op = "poll_nothing"
  /\ last_poll = now
  /\ os_clipboard.ok
  /\ os_clipboard.text # << >>
  /\ os_clipboard.text = last_clipboard_content
  /\ os_clipboard.text \in Contents(clipboard_history)
  /\ clipboard_history = ev.before
  /\ file = ev.file_before

\* C17: no update cycle aborts the process: the subtraction of the poll gate
\* does not overflow when update starts, and for no row that is about to be
\* built does the age subtraction overflow or the preview fail.
C17_NoAbort ==
  /\ pc # "panicked"
  /\ pc = "update" => ~sub_u64(now, last_poll).overflow
  /\ pc = "render"
       => \A i \in 1..Len(ViewEntries) :
            /\ ~FormattedTimeOverflows(ViewEntries[i])
            /\ ~PreviewPanics(ViewEntries[i].content)

\* a is b with some entries left out, the others in the order they have in b
\* (entries are told apart by their content and compared without the flag)
KeepsOrder(a, b) ==
  \E idx \in [1..Len(a) -> 1..Len(b)] :
    /\ \A k, l \in 1..Len(a) : k < l => idx[k] < idx[l]
    /\ \A k \in 1..Len(a) :
         /\ a[k].content = b[idx[k]].content
         /\ a[k].id = b[idx[k]].id
         /\ a[k].timestamp = b[idx[k]].timestamp

\* C18: the store is newest first: an ingest of a new text puts the new
\* entry at index 0 and keeps the order of the entries that stay, no other
\* operation reorders entries, and the timestamps do not increase from the
\* front to the back.
C18_NewestFirst ==
  /\ \A i, j \in 1..Len(clipboard_history) :
       i < j => clipboard_history[i].timestamp >= clipboard_history[j].timestamp
  /\ IngestedNew
       => /\ clipboard_history[1] = NewEntry(ev.text, now)
          /\ KeepsOrder(Tail(clipboard_history), ev.before)
  /\ ev.op \in {"ingest", "toggle", "delete", "clear_all", "clear_nf",
                 "select", "copy", "render", "edit", "none",
                 "poll_nothing", "poll_not_due"}
       /\ ~IngestedNew
       => KeepsOrder(clipboard_history, ev.before)

\* a new text was ingested into a full store at a later second than the
\* entry now behind it
C18_Witness ==
  /\ IngestedNew
  /\ Len(ev.before) = MAX_HISTORY
  /\ Len(clipboard_history) = MAX_HISTORY
  /\ clipboard_history[1].content = ev.text
  /\ clipboard_history[1].timestamp > clipboard_history[2].timestamp
  /\ clipboard_history[2] \in Entries(ev.before)

\* C19: a toggle or a delete raised from the row of an entry, which carries
\* the id of that entry, changes that entry and no other: the toggle flips
\* the flag of the entry of the row, the delete removes it.
C19_RowIntentHitsItsRow ==
  \A i \in 1..Len(clipboard_history) :
    /\ toggle_favorite(clipboard_history, clipboard_history[i].id).h
         = [clipboard_history EXCEPT ![i].favorite = ~clipboard_history[i].favorite]
    /\ delete_entry(clipboard_history, clipboard_history[i].id).h
         = RemoveAt(clipboard_history, i)

\* C20: the content of an entry that delete(id) removed does not come back
\* into the store through a poll as long as the text on the OS clipboard has
\* not changed since the deletion: while the clipboard still holds the text
\* of a deleted entry, put there before the deletion, no entry has that text.
C20_DeletedStaysDeleted ==
  deleted_on_clipboard => os_clipboard.text \notin Contents(clipboard_history)

====
